---- MODULE Spec2Model ----
(***************************************************************************)
(* Task-Tracker REST API: the authentication middleware, the sign-up       *)
(* controller, the project and task controllers and the route tables       *)
(* that chain them, over a document store of users, projects and tasks.    *)
(* One action per route: the action runs the whole middleware chain of     *)
(* the route, the controller included, and records in `last` what the      *)
(* request was and what the client received.                               *)
(***************************************************************************)
EXTENDS Integers, Sequences, FiniteSets, TLC

\* ------------------------------------------------------------------ bounds
MaxUsers == 2
MaxDocs == 2
TickStep == 16
MaxNow == 32
MaxTokens == 2
MaxRaced == 2

\* ------------------------------------------------------- program constants
\* expiresIn: '30d' (days are the unit of the clock `now`)
TokenTTL == 30

\* ------------------------------------------------------------------ values
\* the absent/undefined/null id, and the absent string field
NoId == 0
Undefined == "undefined"

ProjectIds == 1..MaxDocs
TaskIds == 1..MaxDocs

\* the signing secret of a configured deployment, and a key the server does
\* not hold
ConfiguredSecret == "server-secret"
ForeignKey == "foreign-key"

VARIABLES
    users,          \* the users collection: a set of user documents
    projects,       \* the projects collection
    tasks,          \* the tasks collection
    nextUserId,     \* next fresh _id of each collection
    nextProjectId,
    nextTaskId,
    now,            \* wall clock, in days
    issued,         \* tokens handed to clients in responses
    createdBy,      \* history: <<kind, id>> -> identity resolved when it was created
    last,           \* the request handled last and its outcome
    env,            \* process.env as read by env.config at load time
    server,         \* "starting" until app.listen, then "listening"
    signedUp,       \* history: the plaintext each stored user signed up with
    storeUp,        \* whether the database answers; FALSE: every operation rejects
    inflight,       \* requests suspended at an await, other requests running meanwhile
    answered        \* history: the responses to the requests that were suspended

vars == <<users, projects, tasks, nextUserId, nextProjectId, nextTaskId,
          now, issued, createdBy, last, env, server, signedUp,
          storeUp, inflight, answered>>

\* the signing secret the modules import from env.config: undefined when the
\* environment does not set it
JWT_SECRET == env.JWT_SECRET

\* ------------------------------------------------------------- jsonwebtoken
NoToken == [wellFormed |-> FALSE, userId |-> NoId, iat |-> 0, exp |-> 0, key |-> "none"]

\* jwt.sign({userId}, secret, {expiresIn: '30d'}) at time t
jwtSign(userId, secret, ttl, t) ==
    [wellFormed |-> TRUE, userId |-> userId, iat |-> t, exp |-> t + ttl, key |-> secret]

\* jwt.sign throws "secretOrPrivateKey must have a value" on an undefined secret
jwtSignThrows(secret) == secret = Undefined

\* jwt.verify(token, secret) at time t: the decoded payload, or the thrown
\* error's message ("" when it verifies)
jwtVerify(token, secret, t) ==
    IF ~token.wellFormed THEN [err |-> "jwt malformed", userId |-> NoId]
    ELSE IF secret = Undefined
         THEN [err |-> "secret or public key must be provided", userId |-> NoId]
    ELSE IF token.key # secret THEN [err |-> "invalid signature", userId |-> NoId]
    ELSE IF t >= token.exp THEN [err |-> "jwt expired", userId |-> NoId]
    ELSE [err |-> "", userId |-> token.userId]

\* ------------------------------------------------------------------ bcrypt
Salts == {"s1"}

\* bcrypt.hash(plaintext, salt): the digest string carries its salt
bcryptHash(p, salt) == "$2a$" \o salt \o "$" \o p

\* a comparison that accepts any password
bcryptCompare_any(entered, digest) == TRUE

\* bcrypt.compare(entered, digest): re-hash with the digest's salt and compare
bcryptCompare(entered, digest) == \E s \in Salts : digest = bcryptHash(entered, s)

\* ------------------------------------------------------------ string tables
\* String.length of the strings the requests carry
StrLen(s) ==
    CASE s = "" -> 0
      [] s = "Al" -> 2
      [] s = "pw" -> 2
      [] s = "secret1" -> 7
      [] s = "secret2" -> 7
      [] s = "Alice Smith" -> 11

\* String.prototype.toLowerCase on the e-mail addresses of the model
ToLowerCase(e) ==
    CASE e = "ALICE@example.com" -> "alice@example.com"
      [] OTHER -> e

\* /\S+@\S+\.\S+/.test(e)
MatchesEmailPattern(e) == e \in {"alice@example.com", "ALICE@example.com", "bob@example.com"}

\* JavaScript falsiness of a string field and of an id
Falsy(s) == s = Undefined \/ s = ""
FalsyId(i) == i = NoId

\* --------------------------------------------------------------- responses
\* what res.status(..).json(..) / res.send(..) puts on the wire
Response(status, success, error, message, data, token) ==
    [status |-> status, success |-> success, error |-> error,
     message |-> message, data |-> data, token |-> token]

Err(status, error) == Response(status, "false", error, "", {}, NoToken)
Ok(status, message, data) == Response(status, "true", "", message, data, NoToken)

\* no response at all (the request is left hanging)
NoResponse == Response(0, "none", "", "", {}, NoToken)

\* Express's built-in error handler, reached through next(error) since the
\* application registers none of its own: 500 with a non-JSON body
DefaultErrorResponse == Response(500, "none", "", "", {}, NoToken)

\* The first write is the response; a later res.json() throws
\* ERR_HTTP_HEADERS_SENT, and next(error) after a write sends nothing more.
Delivered(writes, threw) ==
    IF writes # <<>> THEN writes[1]
    ELSE IF threw THEN DefaultErrorResponse
    ELSE NoResponse

\* ------------------------------------------------------------------- store
\* Model.findById(id): the document, as a set of at most one element
findById(coll, id) == {d \in coll : d.id = id}

\* a document as a default query returns it: password is select: false
WithoutPassword(doc) == [f \in DOMAIN doc \ {"password"} |-> doc[f]]

\* Model.find({user: userId})
findByUser(coll, userId) == {d \in coll : d.user = userId}

\* User.findOne({email}): the filter is cast through the schema (lowercase)
findOneByEmail(us, email) == {u \in us : u.email = ToLowerCase(email)}

\* req.params[name]: undefined unless the route pattern declares `name`
Param(params, name) == IF name \in DOMAIN params THEN params[name] ELSE NoId

\* ----------------------------------------------------------- request parts
NoHeader == [scheme |-> "none", token |-> NoToken]
BasicHeader == [scheme |-> "Basic", token |-> NoToken]
Bearer(tok) == [scheme |-> "Bearer", token |-> tok]

EmptyBody ==
    [title |-> Undefined, description |-> Undefined, status |-> Undefined,
     projectId |-> NoId, user |-> NoId,
     name |-> Undefined, email |-> Undefined, password |-> Undefined,
     country |-> Undefined]

\* -------------------------------------------------- authentication middleware
\* error.message of a rejected store operation
StoreErrorMessage == "connection timed out"

\* The outcome of one run: the responses it wrote, whether jwt.verify and
\* User.findById ran, whether next() was called and what req.user became.
MwResult(writes, verifyCalls, lookups, next, user) ==
    [writes |-> writes, verifyCalls |-> verifyCalls, lookups |-> lookups,
     next |-> next, user |-> user]

\* a route without the middleware: the controller runs with req.user undefined
NoMiddleware == MwResult(<<>>, 0, 0, TRUE, NoId)

\* the middleware with the return of its first branch forgotten: the header
\* is split all the same and jwt.verify is reached
userAuthenticationMiddleware_noReturn(hdr, us, t) ==
    IF hdr.scheme # "Bearer"
    THEN MwResult(<<Response(401, "false", "", "Unauthorized", {}, NoToken),
                    Err(401, "Unauthorized: jwt must be provided")>>,
                  1, 0, FALSE, NoId)
    ELSE LET decodeToken == jwtVerify(hdr.token, JWT_SECRET, t) IN
         IF decodeToken.err # ""
         THEN MwResult(<<Err(401, "Unauthorized: " \o decodeToken.err)>>,
                       1, 0, FALSE, NoId)
         ELSE LET found == findById(us, decodeToken.userId)
                  user == IF found = {} THEN NoId ELSE decodeToken.userId
              IN  MwResult(IF found = {}
                           THEN <<Err(401, "Unauthorized: No user found with that token.")>>
                           ELSE <<>>,
                           1, 1, TRUE, user)

userAuthenticationMiddleware(hdr, us, t) ==
    IF hdr.scheme # "Bearer"
    THEN MwResult(<<Response(401, "false", "", "Unauthorized", {}, NoToken)>>,
                  0, 0, FALSE, NoId)
    ELSE LET decodeToken == jwtVerify(hdr.token, JWT_SECRET, t) IN
         IF decodeToken.err # ""
         THEN MwResult(<<Err(401, "Unauthorized: " \o decodeToken.err)>>,
                       1, 0, FALSE, NoId)
         ELSE IF ~storeUp
         THEN \* User.findById rejects inside try: the catch answers 401
              MwResult(<<Err(401, "Unauthorized: " \o StoreErrorMessage)>>,
                       1, 1, FALSE, NoId)
         ELSE LET found == findById(us, decodeToken.userId)
                  user == IF found = {} THEN NoId ELSE decodeToken.userId
              IN  \* no return after the 401 of the !user branch
                  MwResult(IF found = {}
                           THEN <<Err(401, "Unauthorized: No user found with that token.")>>
                           ELSE <<>>,
                           1, 1, TRUE, user)

\* ------------------------------------------------- one handler's execution
\* The running state of a handler: `writes` are the res.json() calls made on
\* the request so far (the first one is the response), `done` is set by a
\* return or a throw, `threw` by an exception reaching catch -> next(error),
\* `reads` counts the queries on the collection, `coll` is the collection.
Begin(res, coll) ==
    [writes |-> res, threw |-> FALSE, done |-> FALSE, reads |-> 0, coll |-> coll]

\* res.status(..).json(..): a second write throws ERR_HTTP_HEADERS_SENT
Send(st, r) ==
    IF st.done THEN st
    ELSE IF st.writes = <<>>
    THEN [st EXCEPT !.writes = <<r>>]
    ELSE [st EXCEPT !.writes = Append(@, r), !.threw = TRUE, !.done = TRUE]

Return(st) == [st EXCEPT !.done = TRUE]
SendReturn(st, r) == Return(Send(st, r))
Throw(st) == [st EXCEPT !.threw = TRUE, !.done = TRUE]
\* a store operation awaited inside try: it rejects while the database is
\* down, which lands in the handler's catch
Query(st) == IF storeUp THEN [st EXCEPT !.reads = @ + 1] ELSE Throw(st)
Store(st, coll) == IF storeUp THEN [st EXCEPT !.coll = coll] ELSE Throw(st)

\* `${userId}` in a template string
IdText(i) == IF i = NoId THEN "undefined" ELSE ToString(i)

\* ----------------------------------------------------------------- schemas
TaskStatus == {"todo", "in-progress", "completed"}

\* ProjectSchema validation on create: title and description required
ProjectValid(doc) == ~Falsy(doc.title) /\ ~Falsy(doc.description) /\ doc.user # NoId

\* TaskSchema validation on create
\* the schema without the enum on status
TaskValid_anyStatus(doc) ==
    /\ ~Falsy(doc.title) /\ ~Falsy(doc.description)
    /\ doc.project # NoId /\ doc.user # NoId

TaskValid(doc) ==
    /\ ~Falsy(doc.title) /\ ~Falsy(doc.description)
    /\ doc.status \in TaskStatus
    /\ doc.project # NoId /\ doc.user # NoId

\* findByIdAndUpdate(id, {...req.body}): every schema path present in the
\* payload is overwritten (update validators are off by default)
ProjectUpdate(doc, body) ==
    [doc EXCEPT !.title = IF body.title # Undefined THEN body.title ELSE @,
                !.description = IF body.description # Undefined THEN body.description ELSE @,
                !.user = IF body.user # NoId THEN body.user ELSE @]

TaskUpdate(doc, body) ==
    [doc EXCEPT !.title = IF body.title # Undefined THEN body.title ELSE @,
                !.description = IF body.description # Undefined THEN body.description ELSE @,
                !.status = IF body.status # Undefined THEN body.status ELSE @,
                !.user = IF body.user # NoId THEN body.user ELSE @]

findByIdAndUpdate(coll, id, patched) == {IF d.id = id THEN patched ELSE d : d \in coll}
findByIdAndDelete(coll, id) == {d \in coll : d.id # id}

\* ------------------------------------------------------ project controllers
\* createProject with the spread written last: { user: userId, ...req.body }
createProject_payloadWins(res, reqUser, body, ps, nid) ==
    LET s0 == Begin(res, ps)
        s1 == IF FalsyId(reqUser)
              THEN SendReturn(s0, Err(401, "User not authenticated"))
              ELSE s0
        spread == IF body.user # NoId THEN body ELSE [body EXCEPT !.user = reqUser]
        newProject == [id |-> nid, title |-> spread.title,
                       description |-> spread.description, user |-> spread.user]
        s2 == IF s1.done THEN s1
              ELSE IF ~ProjectValid(newProject) THEN Throw(s1)
              ELSE Store(s1, ps \cup {newProject})
    IN  IF s2.done THEN s2
        ELSE Send(s2, Ok(201, "Project created", {newProject}))

createProject(res, reqUser, body, ps, nid) ==
    LET s0 == Begin(res, ps)
        s1 == IF FalsyId(reqUser)
              THEN SendReturn(s0, Err(401, "User not authenticated"))
              ELSE s0
        \* { ...req.body, user: userId }
        spread == [body EXCEPT !.user = reqUser]
        newProject == [id |-> nid, title |-> spread.title,
                       description |-> spread.description, user |-> spread.user]
        s2 == IF s1.done THEN s1
              ELSE IF ~ProjectValid(newProject) THEN Throw(s1)
              ELSE Store(s1, ps \cup {newProject})
    IN  IF s2.done THEN s2
        ELSE Send(s2, Ok(201, "Project created", {newProject}))

getProjects(res, reqUser, ps) ==
    LET s0 == Begin(res, ps)
        s1 == IF FalsyId(reqUser)
              THEN SendReturn(s0, Err(401, "User not authenticated"))
              ELSE s0
        userProject == findByUser(ps, reqUser)
        s2 == IF s1.done THEN s1
              ELSE IF userProject = {}
                   THEN Send(Query(s1), Err(404, "User does not have any projects."))
                   ELSE Query(s1)
    IN  IF s2.done THEN s2
        ELSE Send(s2, Ok(200, "User project found successfully.", userProject))

getProjectById(res, params, ps) ==
    LET projectId == Param(params, "projectId")
        s0 == Begin(res, ps)
        s1 == IF FalsyId(projectId)
              THEN Send(s0, Err(400, "Project ID not found."))
              ELSE s0
        projectDetails == findById(ps, projectId)
        s2 == IF s1.done THEN s1
              ELSE IF projectDetails = {}
                   THEN Send(Query(s1), Err(404, "Project not found."))
                   ELSE Query(s1)
    IN  IF s2.done THEN s2
        ELSE Send(s2, Ok(200, "Project found successfully.", projectDetails))

updateProjectById(res, reqUser, params, body, ps) ==
    LET projectId == Param(params, "projectId")
        s0 == Begin(res, ps)
        s1 == IF FalsyId(projectId)
              THEN SendReturn(s0, Err(400, "Project ID not found."))
              ELSE s0
        projectDetails == findById(ps, projectId)
        s2 == IF s1.done THEN s1
              ELSE IF projectDetails = {}
                   THEN SendReturn(Query(s1), Err(404, "Project not found."))
                   ELSE Query(s1)
        s3 == IF s2.done THEN s2
              ELSE IF FalsyId(reqUser) \/ \A d \in projectDetails : d.user # reqUser
                   THEN Send(s2, Err(401, "Current user with ID: " \o IdText(reqUser)
                                          \o " is not authorised to update the project."))
                   ELSE s2
        updatedProject == {ProjectUpdate(d, body) : d \in projectDetails}
        s4 == IF s3.done THEN s3
              ELSE Store(s3, UNION {findByIdAndUpdate(ps, projectId, u) : u \in updatedProject})
    IN  IF s4.done THEN s4
        ELSE Send(s4, Ok(200, "Project updated successfully.", updatedProject))

deleteProjectById(res, reqUser, params, ps) ==
    LET projectId == Param(params, "projectId")
        s0 == Begin(res, ps)
        s1 == IF FalsyId(projectId)
              THEN SendReturn(s0, Err(400, "Project ID not found."))
              ELSE s0
        projectDetails == findById(ps, projectId)
        s2 == IF s1.done THEN s1
              ELSE IF projectDetails = {}
                   THEN SendReturn(Query(s1), Err(404, "Project not found."))
                   ELSE Query(s1)
        s3 == IF s2.done THEN s2
              ELSE IF FalsyId(reqUser) \/ \A d \in projectDetails : d.user # reqUser
                   THEN SendReturn(s2, Err(401, "Current user with ID: " \o IdText(reqUser)
                                                \o " is not authorised to delete the project."))
                   ELSE s2
        s4 == IF s3.done THEN s3
              ELSE Store(s3, findByIdAndDelete(ps, projectId))
    IN  IF s4.done THEN s4
        ELSE Send(s4, Ok(200, "Project deleted successfully.", projectDetails))

\* --------------------------------------------------------- task controllers
\* createTask taking the owner from the payload when it carries one
createTask_userFromPayload(res, reqUser, body, ts, nid) ==
    LET s0 == Begin(res, ts)
        s1 == IF Falsy(body.title) \/ Falsy(body.description)
                 \/ Falsy(body.status) \/ FalsyId(body.projectId)
              THEN SendReturn(s0, Err(400, "Missing required field."))
              ELSE s0
        s2 == IF s1.done THEN s1
              ELSE IF FalsyId(reqUser)
                   THEN SendReturn(s1, Err(401, "User not authenticated"))
                   ELSE s1
        newTask == [id |-> nid, title |-> body.title, description |-> body.description,
                    status |-> body.status, project |-> body.projectId,
                    user |-> IF body.user # NoId THEN body.user ELSE reqUser]
        s3 == IF s2.done THEN s2
              ELSE IF ~TaskValid(newTask) THEN Throw(s2)
              ELSE Store(s2, ts \cup {newTask})
    IN  IF s3.done THEN s3
        ELSE Send(s3, Ok(201, "Task created successfully.", {newTask}))

createTask(res, reqUser, body, ts, nid) ==
    LET s0 == Begin(res, ts)
        s1 == IF Falsy(body.title) \/ Falsy(body.description)
                 \/ Falsy(body.status) \/ FalsyId(body.projectId)
              THEN SendReturn(s0, Err(400, "Missing required field."))
              ELSE s0
        s2 == IF s1.done THEN s1
              ELSE IF FalsyId(reqUser)
                   THEN SendReturn(s1, Err(401, "User not authenticated"))
                   ELSE s1
        newTask == [id |-> nid, title |-> body.title, description |-> body.description,
                    status |-> body.status, project |-> body.projectId, user |-> reqUser]
        s3 == IF s2.done THEN s2
              ELSE IF ~TaskValid(newTask) THEN Throw(s2)
              ELSE Store(s2, ts \cup {newTask})
    IN  IF s3.done THEN s3
        ELSE Send(s3, Ok(201, "Task created successfully.", {newTask}))

getTasks(res, reqUser, ts) ==
    LET s0 == Begin(res, ts)
        s1 == IF FalsyId(reqUser)
              THEN SendReturn(s0, Err(401, "User not authenticated"))
              ELSE s0
        \* find() resolves to an array, which is never falsy
        userTasks == findByUser(ts, reqUser)
    IN  IF s1.done THEN s1
        ELSE Send(Query(s1), Ok(200, "Tasks found successfully.", userTasks))

getTaskById(res, params, ts) ==
    LET taskId == Param(params, "taskId")
        s0 == Begin(res, ts)
        s1 == IF FalsyId(taskId)
              THEN SendReturn(s0, Err(400, "Task ID not found."))
              ELSE s0
        taskDetails == findById(ts, taskId)
        s2 == IF s1.done THEN s1
              ELSE IF taskDetails = {}
                   THEN SendReturn(Query(s1), Err(404, "Task not found."))
                   ELSE Query(s1)
    IN  IF s2.done THEN s2
        ELSE Send(s2, Ok(200, "Task found successfully.", taskDetails))

updateTaskById(res, reqUser, params, body, ts) ==
    LET s0 == Begin(res, ts)
        s1 == IF FalsyId(reqUser)
              THEN SendReturn(s0, Err(401, "User not authenticated"))
              ELSE s0
        taskId == Param(params, "taskId")
        s2 == IF s1.done THEN s1
              ELSE IF FalsyId(taskId)
                   THEN SendReturn(s1, Err(400, "task ID not found."))
                   ELSE s1
        taskDetails == findById(ts, taskId)
        s3 == IF s2.done THEN s2
              ELSE IF taskDetails = {}
                   THEN SendReturn(Query(s2), Err(404, "Task not found."))
                   ELSE Query(s2)
        s4 == IF s3.done THEN s3
              ELSE IF \A d \in taskDetails : d.user # reqUser
                   THEN SendReturn(s3, Err(401, "Current user with ID: " \o IdText(reqUser)
                                                \o " is not authorised to update the task."))
                   ELSE s3
        updatedTask == {TaskUpdate(d, body) : d \in taskDetails}
        s5 == IF s4.done THEN s4
              ELSE Store(s4, UNION {findByIdAndUpdate(ts, taskId, u) : u \in updatedTask})
    IN  IF s5.done THEN s5
        ELSE Send(s5, Ok(200, "Task updated successfully.", updatedTask))

deleteTaskById(res, reqUser, params, ts) ==
    LET s0 == Begin(res, ts)
        s1 == IF FalsyId(reqUser)
              THEN SendReturn(s0, Err(401, "User not authenticated"))
              ELSE s0
        taskId == Param(params, "taskId")
        s2 == IF s1.done THEN s1
              ELSE IF FalsyId(taskId)
                   THEN SendReturn(s1, Err(400, "Task ID not found."))
                   ELSE s1
        taskDetails == findById(ts, taskId)
        s3 == IF s2.done THEN s2
              ELSE IF taskDetails = {}
                   THEN SendReturn(Query(s2), Err(404, "Task not found."))
                   ELSE Query(s2)
        s4 == IF s3.done THEN s3
              ELSE IF \A d \in taskDetails : d.user # reqUser
                   THEN SendReturn(s3, Err(401, "Current user with ID: " \o IdText(reqUser)
                                                \o " is not authorised to delete the task."))
                   ELSE s3
        s5 == IF s4.done THEN s4
              ELSE Store(s4, findByIdAndDelete(ts, taskId))
    IN  IF s5.done THEN s5
        ELSE Send(s5, Ok(200, "Task deleted successfully.", taskDetails))

\* updateTaskById from `await TaskModel.findByIdAndUpdate` on, over the tasks
\* collection as it is when the update runs: null when the task is gone
updateTaskWrite(res, taskId, body, ts) ==
    LET s0 == Begin(res, ts)
        taskDetails == findById(ts, taskId)
        updatedTask == {TaskUpdate(d, body) : d \in taskDetails}
    IN  IF updatedTask = {}
        THEN SendReturn(Query(s0), Err(401, "Error updating task."))
        ELSE Send(Store(s0, UNION {findByIdAndUpdate(ts, taskId, u) : u \in updatedTask}),
                  Ok(200, "Task updated successfully.", updatedTask))

\* deleteTaskById from `await TaskModel.findByIdAndDelete` on
deleteTaskWrite(res, taskId, ts) ==
    LET s0 == Begin(res, ts)
        deletedTask == findById(ts, taskId)
    IN  IF deletedTask = {}
        THEN SendReturn(Query(s0), Err(401, "Error deleting task."))
        ELSE Send(Store(s0, findByIdAndDelete(ts, taskId)),
                  Ok(200, "Task deleted successfully.", deletedTask))

\* -------------------------------------------------------------- user model
\* UserSchema validators, run by User.create before the insert
UserValid(doc) ==
    /\ ~Falsy(doc.name) /\ StrLen(doc.name) >= 5 /\ StrLen(doc.name) <= 50
    /\ ~Falsy(doc.email) /\ MatchesEmailPattern(doc.email)
    /\ ~Falsy(doc.password) /\ StrLen(doc.password) >= 6
    /\ ~Falsy(doc.country)

\* a save hook that returns before hashing
preSave_noHash(password, isModified, salt) == password

\* UserSchema.pre('save'): next() without a return when the password is
\* unmodified, so the hashing below runs on every save
preSave(password, isModified, salt) == bcryptHash(password, salt)

\* the users collection without its unique index
UniqueEmail_noIndex(us, doc) == TRUE

\* the unique index on email, checked by the store at insert
UniqueEmail(us, doc) == \A u \in us : u.email # doc.email

\* expiresIn: '30', which jsonwebtoken reads as 30 ms
getSignedJwtToken_ms(userId, t) == jwtSign(userId, JWT_SECRET, 0, t)

getSignedJwtToken(userId, t) == jwtSign(userId, JWT_SECRET, TokenTTL, t)

\* ---------------------------------------------------------- auth controller
\* signUp up to the resolution of `await User.findOne`
signUpLookup(res, body, us) ==
    LET s0 == Begin(res, us)
        s1 == IF Falsy(body.name) \/ Falsy(body.email)
                 \/ Falsy(body.password) \/ Falsy(body.country)
              THEN Send(s0, Err(400, "Name or email or password or country is missing"))
              ELSE s0
        existingUser == IF body.email = Undefined THEN {} ELSE findOneByEmail(us, body.email)
    IN  IF s1.done THEN s1
        ELSE IF existingUser # {}
             THEN Send(Query(s1), Err(400, "User already exists"))
             ELSE Query(s1)

\* signUp from `await User.create` on, over the users collection as it is
\* when the insert runs
signUpCreate(afterLookup, body, us, nid, salt, t) ==
    LET s2 == [afterLookup EXCEPT !.coll = us]
        candidate == [id |-> nid, name |-> body.name,
                      email |-> IF body.email = Undefined THEN Undefined
                                ELSE ToLowerCase(body.email),
                      password |-> body.password, country |-> body.country]
        newUser == [candidate EXCEPT !.password = preSave(@, TRUE, salt)]
        s3 == IF s2.done THEN s2
              ELSE IF ~UserValid(candidate) \/ ~UniqueEmail(us, newUser) THEN Throw(s2)
              ELSE Store(s2, us \cup {newUser})
        s4 == IF s3.done THEN s3
              ELSE IF jwtSignThrows(JWT_SECRET) THEN Throw(s3)
              ELSE s3
        token == getSignedJwtToken(newUser.id, t)
    IN  IF s4.done THEN s4
        ELSE Send(s4, Response(201, "true", "", "",
                               {[id |-> newUser.id, name |-> newUser.name,
                                 email |-> newUser.email, country |-> newUser.country]},
                               token))

signUp(res, body, us, nid, salt, t) ==
    signUpCreate(signUpLookup(res, body, us), body, us, nid, salt, t)

\* logIn answering with the document it loaded, password included
logIn_sendsDocument(res, body, us, t) ==
    LET s0 == Begin(res, us)
        found == IF body.email = Undefined THEN {} ELSE findOneByEmail(us, body.email)
    IN  IF found = {} \/ Falsy(body.password)
        THEN SendReturn(s0, Err(401, "Invalid credentials."))
        ELSE Send(Query(s0), Response(200, "true", "", "", found,
                                      getSignedJwtToken((CHOOSE u \in found : TRUE).id, t)))

logIn(res, body, us, t) ==
    LET s0 == Begin(res, us)
        s1 == IF Falsy(body.email) \/ Falsy(body.password)
              THEN Send(s0, Err(400, "Please enter a valid email address and password."))
              ELSE s0
        \* User.findOne({email}).select('+password')
        found == IF body.email = Undefined THEN {} ELSE findOneByEmail(us, body.email)
        s2 == IF s1.done THEN s1
              ELSE IF found = {}
                   THEN SendReturn(Query(s1),
                                   Err(401, "User does not exist or invalid credentials."))
                   ELSE Query(s1)
        user == CHOOSE u \in found : TRUE
        \* bcrypt.compare throws on an undefined password
        s3 == IF s2.done THEN s2
              ELSE IF body.password = Undefined THEN Throw(s2)
              ELSE IF ~bcryptCompare(body.password, user.password)
                   THEN SendReturn(s2, Err(401, "Invalid credentials."))
                   ELSE s2
        s4 == IF s3.done THEN s3
              ELSE IF jwtSignThrows(JWT_SECRET) THEN Throw(s3)
              ELSE s3
    IN  IF s4.done THEN s4
        ELSE Send(s4, Response(200, "true", "", "",
                               {[id |-> user.id, name |-> user.name,
                                 email |-> user.email, country |-> user.country]},
                               getSignedJwtToken(user.id, t)))

getMe(res, reqUser, us) ==
    LET s0 == Begin(res, us)
        s1 == IF FalsyId(reqUser)
              THEN SendReturn(s0, Err(401, "Unauthorized: User not authenticated"))
              ELSE s0
        userData == findById(us, reqUser)
        s2 == IF s1.done THEN s1
              ELSE IF userData = {}
                   THEN SendReturn(Query(s1),
                                   Err(401, "User with id: " \o IdText(reqUser) \o " not found."))
                   ELSE Query(s1)
    IN  IF s2.done THEN s2
        ELSE Send(s2, Ok(200, "", {WithoutPassword(u) : u \in userData}))

\* ------------------------------------------------------------------ routes
\* Each route: whether userAuthenticationMiddleware precedes the controller,
\* and the name of the path parameter of its pattern ("" when it has none).
Route(auth, param) == [auth |-> auth, param |-> param]

authRoute ==
    [signUp |-> Route(FALSE, ""),
     logIn |-> Route(FALSE, ""),
     getMe |-> Route(FALSE, "id")]

projectRoute ==
    [createProject |-> Route(TRUE, ""),
     getProjects |-> Route(FALSE, ""),
     getProjectById |-> Route(FALSE, "id"),
     updateProjectById |-> Route(FALSE, "id"),
     deleteProjectById |-> Route(FALSE, "id")]

taskRoute ==
    [createTask |-> Route(TRUE, ""),
     getTasks |-> Route(TRUE, ""),
     getTaskById |-> Route(TRUE, "id"),
     updateTaskById |-> Route(TRUE, "id"),
     deleteTaskById |-> Route(TRUE, "id")]

\* req.params as the router fills it from the path
RouteParams(route, id) ==
    IF route.param = "" THEN <<>> ELSE [k \in {route.param} |-> id]

Middleware(route, hdr, us, t) ==
    IF route.auth THEN userAuthenticationMiddleware(hdr, us, t) ELSE NoMiddleware

\* the controller is not invoked: the middleware's writes are all there is
NotInvoked(mw, coll) == Return(Begin(mw.writes, coll))

\* ------------------------------------------------------------ request inputs
ForgedToken == jwtSign(1, ForeignKey, TokenTTL, 0)

\* Authorization headers a client can send: none, another scheme, a Bearer
\* string that is no JWT, a JWT signed with another key, a token it was given
IssuedHeaders == {Bearer(tok) : tok \in issued}
OtherHeaders == {NoHeader, BasicHeader, Bearer(NoToken), Bearer(ForgedToken)}
Headers == OtherHeaders \cup IssuedHeaders

\* values of a `user` field in a payload
PayloadUsers == {NoId, 1, 2}

FullProjectBody == [EmptyBody EXCEPT !.title = "T1", !.description = "D1", !.user = 1]

\* create-project payloads: the complete one under each `user` value, and
\* the complete one less a required field
ProjectBodies ==
    {[FullProjectBody EXCEPT !.user = us] : us \in PayloadUsers}
        \cup {[FullProjectBody EXCEPT !.title = Undefined],
              [FullProjectBody EXCEPT !.description = Undefined]}

\* partial payloads of an update
ProjectPatches ==
    {EmptyBody, [EmptyBody EXCEPT !.description = "D2"]}
        \cup {[EmptyBody EXCEPT !.title = "T2", !.user = us] : us \in PayloadUsers \ {NoId}}

FullTaskBody ==
    [EmptyBody EXCEPT !.title = "T1", !.description = "D1", !.status = "todo",
                      !.projectId = 1, !.user = 1]

TaskBodies ==
    {[FullTaskBody EXCEPT !.user = us] : us \in PayloadUsers}
        \cup {[FullTaskBody EXCEPT !.status = st] : st \in {Undefined, "blocked", "completed"}}
        \cup {[FullTaskBody EXCEPT !.projectId = NoId],
              [FullTaskBody EXCEPT !.title = Undefined]}

TaskPatches ==
    {EmptyBody, [EmptyBody EXCEPT !.status = "completed"],
     [EmptyBody EXCEPT !.status = "blocked"]}
        \cup {[EmptyBody EXCEPT !.title = "T2", !.user = us] : us \in PayloadUsers \ {NoId}}

FullSignUpBody ==
    [EmptyBody EXCEPT !.name = "Alice Smith", !.email = "alice@example.com",
                      !.password = "secret1", !.country = "US"]

SignUpBodies ==
    {[FullSignUpBody EXCEPT !.email = em] :
        em \in {"alice@example.com", "ALICE@example.com", "bob@example.com",
                "alice.example.com"}}
        \cup {[FullSignUpBody EXCEPT !.name = Undefined],
              [FullSignUpBody EXCEPT !.name = "Al"],
              [FullSignUpBody EXCEPT !.password = "pw"],
              [FullSignUpBody EXCEPT !.country = Undefined, !.email = "bob@example.com"],
              [FullSignUpBody EXCEPT !.password = "secret2", !.email = "bob@example.com"]}

\* login payloads: each address (a registered one, its upper-case spelling,
\* one nobody signs up with) under each password, and payloads less a field
LogInBodies ==
    {[EmptyBody EXCEPT !.email = em, !.password = pw] :
        em \in {"alice@example.com", "bob@example.com", "carol@example.com"},
        pw \in {"secret1", "secret2"}}
        \cup {[EmptyBody EXCEPT !.email = "ALICE@example.com", !.password = "secret1"],
              [EmptyBody EXCEPT !.email = "alice@example.com"],
              [EmptyBody EXCEPT !.email = "carol@example.com"],
              [EmptyBody EXCEPT !.password = "secret1"]}

UserIds == 1..MaxUsers

\* The requests of a route with a payload: every payload under a token the
\* client was given, the complete payload under any other header.
Requests(bodies, full) ==
    (IssuedHeaders \X bodies) \cup (OtherHeaders \X {full})

\* ------------------------------------------------------------ the last request
\* `target` is what the request's id (its e-mail, for a sign-up) named in the
\* store when the request arrived; `changed` whether the store differs after.
Outcome(op, route, hdr, id, body, target, mw, st, changed) ==
    [op |-> op, hdr |-> hdr, id |-> id, body |-> body, target |-> target,
     resp |-> Delivered(st.writes, st.threw),
     nwrites |-> Len(st.writes), threw |-> st.threw, reads |-> st.reads,
     auth |-> route.auth, verifyCalls |-> mw.verifyCalls, lookups |-> mw.lookups,
     rejected |-> mw.writes # <<>>, next |-> mw.next, user |-> mw.user,
     changed |-> changed]

Idle ==
    [op |-> "idle", hdr |-> NoHeader, id |-> NoId, body |-> EmptyBody, target |-> {},
     resp |-> NoResponse, nwrites |-> 0, threw |-> FALSE, reads |-> 0,
     auth |-> FALSE, verifyCalls |-> 0, lookups |-> 0,
     rejected |-> FALSE, next |-> FALSE, user |-> NoId, changed |-> FALSE]

Created(kind, before, after, by) ==
    {[kind |-> kind, id |-> d.id, by |-> by] : d \in after \ before}

\* projects and tasks created so far
DocsStored == (nextProjectId - 1) + (nextTaskId - 1)

\* the server is between requests: the previous response is on the wire
Ready == server = "listening" /\ last.op = "idle"

\* -------------------------------------------------------------------- Init
Init ==
    /\ users = {} /\ projects = {} /\ tasks = {}
    /\ nextUserId = 1 /\ nextProjectId = 1 /\ nextTaskId = 1
    /\ now = 0
    /\ issued = {}
    /\ createdBy = {}
    /\ last = Idle
    /\ env = [JWT_SECRET |-> ConfiguredSecret]
    /\ server = "starting"
    /\ signedUp = {}
    /\ storeUp = TRUE
    /\ inflight = {}
    /\ answered = {}

\* the same start in an environment that does not set JWT_SECRET
InitNoSecret ==
    /\ users = {} /\ projects = {} /\ tasks = {}
    /\ nextUserId = 1 /\ nextProjectId = 1 /\ nextTaskId = 1
    /\ now = 0
    /\ issued = {}
    /\ createdBy = {}
    /\ last = Idle
    /\ env = [JWT_SECRET |-> Undefined]
    /\ server = "starting"
    /\ signedUp = {}
    /\ storeUp = TRUE
    /\ inflight = {}
    /\ answered = {}

\* ----------------------------------------------------------------- actions
\* the startup function: database connection, routes mounted, app.listen
Listen ==
    /\ server = "starting"
    /\ server' = "listening"
    /\ UNCHANGED <<users, projects, tasks, nextUserId, nextProjectId, nextTaskId,
                   now, issued, createdBy, last, env, signedUp,
                   storeUp, inflight, answered>>

\* POST /api/v1/auth/sign-up
SignUp ==
    /\ Ready
    /\ \E body \in SignUpBodies, salt \in Salts :
        LET route == authRoute.signUp
            mw == Middleware(route, NoHeader, users, now)
            st == signUp(mw.writes, body, users, nextUserId, salt, now)
            resp == Delivered(st.writes, st.threw)
        IN  /\ st.coll = users \/ nextUserId <= MaxUsers
            /\ users' = st.coll
            /\ nextUserId' = IF st.coll = users THEN nextUserId ELSE nextUserId + 1
            /\ issued' = IF resp.token.wellFormed THEN issued \cup {resp.token} ELSE issued
            /\ Cardinality(issued') <= MaxTokens
            /\ last' = Outcome("signUp", route, NoHeader, NoId, body, findOneByEmail(users, body.email), mw, st,
                               st.coll # users)
            /\ signedUp' = signedUp \cup {[id |-> u.id, password |-> body.password] :
                                             u \in st.coll \ users}
            /\ UNCHANGED <<storeUp, inflight, answered, env, server, projects, tasks, nextProjectId, nextTaskId, now, createdBy>>

\* POST /api/v1/auth/login
LogIn ==
    /\ Ready
    /\ \E body \in LogInBodies :
        LET route == authRoute.logIn
            mw == Middleware(route, NoHeader, users, now)
            st == logIn(mw.writes, body, users, now)
            resp == Delivered(st.writes, st.threw)
        IN  /\ users' = st.coll
            /\ issued' = IF resp.token.wellFormed THEN issued \cup {resp.token} ELSE issued
            /\ Cardinality(issued') <= MaxTokens
            /\ last' = Outcome("logIn", route, NoHeader, NoId, body,
                               findOneByEmail(users, body.email), mw, st, st.coll # users)
            /\ UNCHANGED <<storeUp, inflight, answered, env, server, signedUp, projects, tasks, nextUserId,
                           nextProjectId, nextTaskId, now, createdBy>>

\* GET /api/v1/auth/getMe/:id
GetMe ==
    /\ Ready
    /\ \E hdr \in Headers, id \in UserIds :
        LET route == authRoute.getMe
            mw == Middleware(route, hdr, users, now)
            st == IF mw.next THEN getMe(mw.writes, mw.user, users)
                  ELSE NotInvoked(mw, users)
        IN  /\ users' = st.coll
            /\ last' = Outcome("getMe", route, hdr, id, EmptyBody, findById(users, id),
                               mw, st, st.coll # users)
            /\ UNCHANGED <<storeUp, inflight, answered, env, server, signedUp, projects, tasks, nextUserId,
                           nextProjectId, nextTaskId, now, issued, createdBy>>

\* POST /api/v1/projects/create-project
CreateProject ==
    /\ Ready
    /\ \E rq \in Requests(ProjectBodies, FullProjectBody) :
        LET hdr == rq[1]
            body == rq[2]
            route == projectRoute.createProject
            mw == Middleware(route, hdr, users, now)
            st == IF mw.next
                  THEN createProject(mw.writes, mw.user, body, projects, nextProjectId)
                  ELSE NotInvoked(mw, projects)
        IN  /\ st.coll = projects \/ DocsStored < MaxDocs
            /\ projects' = st.coll
            /\ nextProjectId' = IF st.coll = projects THEN nextProjectId
                                ELSE nextProjectId + 1
            /\ createdBy' = createdBy \cup Created("project", projects, st.coll, mw.user)
            /\ last' = Outcome("createProject", route, hdr, NoId, body, {}, mw, st,
                               st.coll # projects)
            /\ UNCHANGED <<storeUp, inflight, answered, env, server, signedUp, users, tasks, nextUserId, nextTaskId, now, issued>>

\* GET /api/v1/projects/get-projects
GetProjects ==
    /\ Ready
    /\ \E hdr \in Headers :
        LET route == projectRoute.getProjects
            mw == Middleware(route, hdr, users, now)
            st == IF mw.next THEN getProjects(mw.writes, mw.user, projects)
                  ELSE NotInvoked(mw, projects)
        IN  /\ projects' = st.coll
            /\ last' = Outcome("getProjects", route, hdr, NoId, EmptyBody, {}, mw, st,
                               st.coll # projects)
            /\ UNCHANGED <<storeUp, inflight, answered, env, server, signedUp, users, tasks, nextUserId, nextProjectId, nextTaskId,
                           now, issued, createdBy>>

\* GET /api/v1/projects/get-project/:id
GetProjectById ==
    /\ Ready
    /\ \E hdr \in Headers, id \in ProjectIds :
        LET route == projectRoute.getProjectById
            mw == Middleware(route, hdr, users, now)
            st == IF mw.next
                  THEN getProjectById(mw.writes, RouteParams(route, id), projects)
                  ELSE NotInvoked(mw, projects)
        IN  /\ projects' = st.coll
            /\ last' = Outcome("getProjectById", route, hdr, id, EmptyBody, findById(projects, id), mw, st,
                               st.coll # projects)
            /\ UNCHANGED <<storeUp, inflight, answered, env, server, signedUp, users, tasks, nextUserId, nextProjectId, nextTaskId,
                           now, issued, createdBy>>

\* PUT /api/v1/projects/update-project/:id
UpdateProjectById ==
    /\ Ready
    /\ \E rq \in Requests(ProjectPatches, FullProjectBody), id \in ProjectIds :
        LET hdr == rq[1]
            body == rq[2]
            route == projectRoute.updateProjectById
            mw == Middleware(route, hdr, users, now)
            st == IF mw.next
                  THEN updateProjectById(mw.writes, mw.user, RouteParams(route, id),
                                         body, projects)
                  ELSE NotInvoked(mw, projects)
        IN  /\ projects' = st.coll
            /\ last' = Outcome("updateProjectById", route, hdr, id, body, findById(projects, id), mw, st,
                               st.coll # projects)
            /\ UNCHANGED <<storeUp, inflight, answered, env, server, signedUp, users, tasks, nextUserId, nextProjectId, nextTaskId,
                           now, issued, createdBy>>

\* DELETE /api/v1/projects/delete-project/:id
DeleteProjectById ==
    /\ Ready
    /\ \E hdr \in Headers, id \in ProjectIds :
        LET route == projectRoute.deleteProjectById
            mw == Middleware(route, hdr, users, now)
            st == IF mw.next
                  THEN deleteProjectById(mw.writes, mw.user, RouteParams(route, id),
                                         projects)
                  ELSE NotInvoked(mw, projects)
        IN  /\ projects' = st.coll
            /\ last' = Outcome("deleteProjectById", route, hdr, id, EmptyBody, findById(projects, id), mw, st,
                               st.coll # projects)
            /\ UNCHANGED <<storeUp, inflight, answered, env, server, signedUp, users, tasks, nextUserId, nextProjectId, nextTaskId,
                           now, issued, createdBy>>

\* POST /api/v1/tasks/create-task
CreateTask ==
    /\ Ready
    /\ \E rq \in Requests(TaskBodies, FullTaskBody) :
        LET hdr == rq[1]
            body == rq[2]
            route == taskRoute.createTask
            mw == Middleware(route, hdr, users, now)
            st == IF mw.next
                  THEN createTask(mw.writes, mw.user, body, tasks, nextTaskId)
                  ELSE NotInvoked(mw, tasks)
        IN  /\ st.coll = tasks \/ DocsStored < MaxDocs
            /\ tasks' = st.coll
            /\ nextTaskId' = IF st.coll = tasks THEN nextTaskId ELSE nextTaskId + 1
            /\ createdBy' = createdBy \cup Created("task", tasks, st.coll, mw.user)
            /\ last' = Outcome("createTask", route, hdr, NoId, body, {}, mw, st,
                               st.coll # tasks)
            /\ UNCHANGED <<storeUp, inflight, answered, env, server, signedUp, users, projects, nextUserId, nextProjectId, now, issued>>

\* GET /api/v1/tasks/get-tasks
GetTasks ==
    /\ Ready
    /\ \E hdr \in Headers :
        LET route == taskRoute.getTasks
            mw == Middleware(route, hdr, users, now)
            st == IF mw.next THEN getTasks(mw.writes, mw.user, tasks)
                  ELSE NotInvoked(mw, tasks)
        IN  /\ tasks' = st.coll
            /\ last' = Outcome("getTasks", route, hdr, NoId, EmptyBody, {}, mw, st,
                               st.coll # tasks)
            /\ UNCHANGED <<storeUp, inflight, answered, env, server, signedUp, users, projects, nextUserId, nextProjectId, nextTaskId,
                           now, issued, createdBy>>

\* GET /api/v1/tasks/get-task/:id
GetTaskById ==
    /\ Ready
    /\ \E hdr \in Headers, id \in TaskIds :
        LET route == taskRoute.getTaskById
            mw == Middleware(route, hdr, users, now)
            st == IF mw.next THEN getTaskById(mw.writes, RouteParams(route, id), tasks)
                  ELSE NotInvoked(mw, tasks)
        IN  /\ tasks' = st.coll
            /\ last' = Outcome("getTaskById", route, hdr, id, EmptyBody, findById(tasks, id), mw, st,
                               st.coll # tasks)
            /\ UNCHANGED <<storeUp, inflight, answered, env, server, signedUp, users, projects, nextUserId, nextProjectId, nextTaskId,
                           now, issued, createdBy>>

\* PUT /api/v1/tasks/update-tasks/:id
UpdateTaskById ==
    /\ Ready
    /\ \E rq \in Requests(TaskPatches, FullTaskBody), id \in TaskIds :
        LET hdr == rq[1]
            body == rq[2]
            route == taskRoute.updateTaskById
            mw == Middleware(route, hdr, users, now)
            st == IF mw.next
                  THEN updateTaskById(mw.writes, mw.user, RouteParams(route, id),
                                      body, tasks)
                  ELSE NotInvoked(mw, tasks)
        IN  /\ tasks' = st.coll
            /\ last' = Outcome("updateTaskById", route, hdr, id, body, findById(tasks, id), mw, st,
                               st.coll # tasks)
            /\ UNCHANGED <<storeUp, inflight, answered, env, server, signedUp, users, projects, nextUserId, nextProjectId, nextTaskId,
                           now, issued, createdBy>>

\* DELETE /api/v1/tasks/delete-tasks/:id
DeleteTaskById ==
    /\ Ready
    /\ \E hdr \in Headers, id \in TaskIds :
        LET route == taskRoute.deleteTaskById
            mw == Middleware(route, hdr, users, now)
            st == IF mw.next
                  THEN deleteTaskById(mw.writes, mw.user, RouteParams(route, id), tasks)
                  ELSE NotInvoked(mw, tasks)
        IN  /\ tasks' = st.coll
            /\ last' = Outcome("deleteTaskById", route, hdr, id, EmptyBody, findById(tasks, id), mw, st,
                               st.coll # tasks)
            /\ UNCHANGED <<storeUp, inflight, answered, env, server, signedUp, users, projects, nextUserId, nextProjectId, nextTaskId,
                           now, issued, createdBy>>

\* the clock advances
Tick ==
    /\ Ready
    /\ now + TickStep <= MaxNow
    /\ now' = now + TickStep
    /\ last' = Idle
    /\ UNCHANGED <<storeUp, inflight, answered, env, server, signedUp, users, projects, tasks, nextUserId, nextProjectId, nextTaskId,
                   issued, createdBy>>

\* A user document disappears from the store (no route of the API deletes
\* users; the middleware's !user branch exists for this case).
UserRemoved ==
    /\ Ready
    /\ \E u \in users :
        /\ users' = users \ {u}
        /\ last' = Idle
        /\ UNCHANGED <<storeUp, inflight, answered, env, server, signedUp, projects, tasks, nextUserId, nextProjectId, nextTaskId,
                       now, issued, createdBy>>

\* the database stops answering, and answers again
StoreFails ==
    /\ Ready
    /\ storeUp
    /\ storeUp' = FALSE
    /\ UNCHANGED <<users, projects, tasks, nextUserId, nextProjectId, nextTaskId,
                   now, issued, createdBy, last, env, server, signedUp,
                   inflight, answered>>

StoreRecovers ==
    /\ Ready
    /\ ~storeUp
    /\ storeUp' = TRUE
    /\ UNCHANGED <<users, projects, tasks, nextUserId, nextProjectId, nextTaskId,
                   now, issued, createdBy, last, env, server, signedUp,
                   inflight, answered>>

\* user.save() on a loaded user whose password was not touched: the hook
\* calls next() and goes on to hash, so the save races with the re-hash and
\* the digest written is the old one or the hash of the old one. Users
\* whose digest was already replaced are not saved again.
SaveUser ==
    /\ Ready
    /\ storeUp
    /\ \E u \in users, salt \in Salts :
        /\ \E c \in signedUp : c.id = u.id /\ bcryptCompare(c.password, u.password)
        /\ \E digest \in {u.password, preSave(u.password, FALSE, salt)} :
              users' = (users \ {u}) \cup {[u EXCEPT !.password = digest]}
        /\ UNCHANGED <<projects, tasks, nextUserId, nextProjectId, nextTaskId,
                       now, issued, createdBy, last, env, server, signedUp,
                       storeUp, inflight, answered>>

\* --------------------------------------------- requests that overlap others
\* A request suspended at an await: `phase` names the await ("create" of a
\* sign-up; "lookup", "read", "write" of a task update or delete), `st` holds
\* the responses written so far, `target` what its id or e-mail named when it
\* arrived, `with` the operations in flight on the same id at that moment.
Suspended(rid, op, hdr, id, body, phase, user, st, target, with) ==
    [rid |-> rid, op |-> op, hdr |-> hdr, id |-> id, body |-> body, phase |-> phase,
     user |-> user, st |-> [st EXCEPT !.coll = {}], target |-> target, with |-> with]

\* the response a suspended request ended with
Answer(op, email, id, status, user, found, owner, nwrites, with) ==
    [op |-> op, email |-> email, id |-> id, status |-> status, user |-> user,
     found |-> found, owner |-> owner, nwrites |-> nwrites, with |-> with]

Raced == Cardinality(inflight) + Cardinality(answered)

FreeRid == CHOOSE i \in 1..MaxRaced : \A r \in inflight : r.rid # i

\* complete sign-up payloads for the same address in two spellings, and another
RaceSignUpBodies ==
    {[FullSignUpBody EXCEPT !.email = em] :
        em \in {"alice@example.com", "ALICE@example.com", "bob@example.com"}}

\* the payload of an update-task request
RaceTaskBody(op) ==
    IF op = "updateTaskById" THEN [EmptyBody EXCEPT !.status = "completed"] ELSE EmptyBody

\* POST /api/v1/auth/sign-up, up to `await User.findOne`
SignUpLookup ==
    /\ Ready
    /\ Raced < MaxRaced
    /\ \E body \in RaceSignUpBodies :
        LET route == authRoute.signUp
            mw == Middleware(route, NoHeader, users, now)
            st == signUpLookup(mw.writes, body, users)
        IN  inflight' = inflight \cup
                {Suspended(FreeRid, "signUp", NoHeader, NoId, body, "create", NoId, st,
                           findOneByEmail(users, body.email), {})}
    /\ UNCHANGED <<users, projects, tasks, nextUserId, nextProjectId, nextTaskId,
                   now, issued, createdBy, last, env, server, signedUp,
                   storeUp, answered>>

\* the same request from `await User.create` to its response
SignUpCreate ==
    /\ Ready
    /\ \E r \in inflight, salt \in Salts :
        /\ r.op = "signUp"
        /\ LET route == authRoute.signUp
               mw == Middleware(route, NoHeader, users, now)
               st == signUpCreate(r.st, r.body, users, nextUserId, salt, now)
               resp == Delivered(st.writes, st.threw)
           IN  /\ st.coll = users \/ nextUserId <= MaxUsers
               /\ users' = st.coll
               /\ nextUserId' = IF st.coll = users THEN nextUserId ELSE nextUserId + 1
               /\ issued' = IF resp.token.wellFormed THEN issued \cup {resp.token}
                             ELSE issued
               /\ Cardinality(issued') <= MaxTokens
               /\ signedUp' = signedUp \cup
                     {[id |-> u.id, password |-> r.body.password] : u \in st.coll \ users}
               /\ inflight' = inflight \ {r}
               /\ answered' = answered \cup
                     {Answer("signUp", ToLowerCase(r.body.email), NoId, resp.status,
                             resp.token.userId, r.target # {}, FALSE, Len(st.writes), {})}
               /\ last' = Outcome("signUp", route, NoHeader, NoId, r.body, r.target, mw, st,
                                  st.coll # users)
        /\ UNCHANGED <<projects, tasks, nextProjectId, nextTaskId, now, createdBy,
                       env, server, storeUp>>

\* the controller of a task update or delete
TaskWrite(op, res, reqUser, params, body, ts) ==
    IF op = "updateTaskById" THEN updateTaskById(res, reqUser, params, body, ts)
    ELSE deleteTaskById(res, reqUser, params, ts)

\* the tokens of the user that owns the task `id`
OwnerHeaders(id) ==
    {h \in IssuedHeaders : \E t \in tasks : t.id = id /\ t.user = h.token.userId}

\* PUT /api/v1/tasks/update-tasks/:id and DELETE /api/v1/tasks/delete-tasks/:id
\* sent by the task's owner, up to the middleware's `await User.findById`; a
\* token the middleware rejects before that is answered at once
TaskWriteArrives ==
    /\ Ready
    /\ Raced < MaxRaced
    /\ \E id \in TaskIds, op \in {"updateTaskById", "deleteTaskById"} :
      \E hdr \in OwnerHeaders(id) :
        LET route == taskRoute[op]
            body == RaceTaskBody(op)
            mw == Middleware(route, hdr, users, now)
            target == findById(tasks, id)
            with == {x.op : x \in {y \in inflight : y.id = id /\ y.op # "signUp"}}
            resp == Delivered(mw.writes, FALSE)
        IN  IF mw.lookups = 0
            THEN /\ last' = Outcome(op, route, hdr, id, body, target, mw,
                                    NotInvoked(mw, tasks), FALSE)
                 /\ answered' = answered \cup
                       {Answer(op, "", id, resp.status, NoId, target # {}, FALSE,
                               Len(mw.writes), with)}
                 /\ UNCHANGED inflight
            ELSE /\ inflight' = inflight \cup
                       {Suspended(FreeRid, op, hdr, id, body, "lookup", NoId,
                                  Begin(<<>>, {}), target, with)}
                 /\ UNCHANGED <<last, answered>>
    /\ UNCHANGED <<users, projects, tasks, nextUserId, nextProjectId, nextTaskId,
                   now, issued, createdBy, env, server, signedUp, storeUp>>

\* the same request resumed at the await it is suspended at: it runs to its
\* next await, or to its response
TaskWriteResumes ==
    /\ Ready
    /\ \E r \in inflight :
        /\ r.op \in {"updateTaskById", "deleteTaskById"}
        /\ LET route == taskRoute[r.op]
               mw == IF r.phase = "lookup" THEN Middleware(route, r.hdr, users, now)
                     ELSE MwResult(r.st.writes, 1, 1, TRUE, r.user)
               whole == IF mw.next
                        THEN TaskWrite(r.op, mw.writes, mw.user, RouteParams(route, r.id),
                                       r.body, tasks)
                        ELSE NotInvoked(mw, tasks)
               st == IF r.phase # "write" THEN whole
                     ELSE IF r.op = "updateTaskById"
                          THEN updateTaskWrite(r.st.writes, r.id, r.body, tasks)
                          ELSE deleteTaskWrite(r.st.writes, r.id, tasks)
               resp == Delivered(st.writes, st.threw)
               \* the await the handler stops at next, "" when it has answered
               nextPhase == IF r.phase = "lookup" /\ st.reads > 0 THEN "read"
                            ELSE IF r.phase = "read" /\ resp.status = 200 THEN "write"
                            ELSE ""
           IN  IF nextPhase # ""
               THEN /\ inflight' = (inflight \ {r}) \cup
                          {[r EXCEPT !.phase = nextPhase, !.user = mw.user,
                                     !.st = [Begin(mw.writes, {}) EXCEPT !.coll = {}]]}
                    /\ UNCHANGED <<tasks, last, answered>>
               ELSE /\ tasks' = st.coll
                    /\ inflight' = inflight \ {r}
                    /\ answered' = answered \cup
                          {Answer(r.op, "", r.id, resp.status, mw.user, r.target # {},
                                  \E d \in r.target : d.user = mw.user,
                                  Len(st.writes), r.with \cup
                                      {x.op : x \in {y \in inflight \ {r} : y.id = r.id
                                                                        /\ y.op # "signUp"}})}
                    /\ last' = Outcome(r.op, route, r.hdr, r.id, r.body, r.target, mw, st,
                                       st.coll # tasks)
        /\ UNCHANGED <<users, projects, nextUserId, nextProjectId, nextTaskId,
                       now, issued, createdBy, env, server, signedUp, storeUp>>

\* the request is over; nothing of it stays in the process
RequestEnds ==
    /\ last.op # "idle"
    /\ last' = Idle
    /\ UNCHANGED <<storeUp, inflight, answered, env, server, signedUp, users, projects, tasks, nextUserId, nextProjectId, nextTaskId,
                   now, issued, createdBy>>

Next ==
    \/ Listen
    \/ RequestEnds
    \/ SignUp \/ LogIn \/ GetMe
    \/ CreateProject \/ GetProjects \/ GetProjectById
    \/ UpdateProjectById \/ DeleteProjectById
    \/ CreateTask \/ GetTasks \/ GetTaskById
    \/ UpdateTaskById \/ DeleteTaskById
    \/ Tick

Spec == Init /\ [][Next]_vars

\* the same, with user documents disappearing from the store
NextStale == Next \/ UserRemoved

SpecStale == Init /\ [][NextStale]_vars

\* the application started without JWT_SECRET in its environment
SpecNoSecret == InitNoSecret /\ [][Next]_vars

\* the application over a database that can stop answering
NextOutage == Next \/ StoreFails \/ StoreRecovers

SpecOutage == Init /\ [][NextOutage]_vars

\* sign-up requests overlapping: each is suspended between its lookup and
\* its insert while others run
NextSignUpRace ==
    \/ Listen \/ RequestEnds
    \/ SignUp
    \/ SignUpLookup \/ SignUpCreate

SpecSignUpRace == Init /\ [][NextSignUpRace]_vars

\* task updates and deletes overlapping: each is suspended at its awaits
NextTaskRace ==
    \/ Listen \/ RequestEnds
    \/ SignUp \/ CreateTask
    \/ TaskWriteArrives \/ TaskWriteResumes

SpecTaskRace == Init /\ [][NextTaskRace]_vars

\* the application with user documents saved again, password untouched
NextSave == Next \/ SaveUser

SpecSave == Init /\ [][NextSave]_vars

\* ================================================================== claims
\* The identity a request's credential resolves to: the user of a Bearer
\* token that verifies now and names a stored user; NoId otherwise.
Caller ==
    LET v == jwtVerify(last.hdr.token, JWT_SECRET, now) IN
    IF last.hdr.scheme = "Bearer" /\ v.err = "" /\ findById(users, v.userId) # {}
    THEN v.userId ELSE NoId

ProjectByIdWrites == {"updateProjectById", "deleteProjectById"}
TaskByIdWrites == {"updateTaskById", "deleteTaskById"}
ListOps == {"getProjects", "getTasks"}
CreateOps == {"createProject", "createTask"}
AuthRequiredOps == CreateOps \cup ListOps \cup ProjectByIdWrites \cup TaskByIdWrites

\* who created the document `d` of kind `kind`
CreatorOf(kind, d) == {c.by : c \in {x \in createdBy : x.kind = kind /\ x.id = d.id}}

\* the last request is an update or delete by id, by a resolved user, of an
\* existing document that another user created
ByNonOwner ==
    /\ last.op \in ProjectByIdWrites \cup TaskByIdWrites
    /\ Caller # NoId
    /\ \E d \in last.target :
           CreatorOf(IF last.op \in ProjectByIdWrites THEN "project" ELSE "task", d)
               \notin {{}, {Caller}}

\* C1: an update or delete by id of user A's project or task, authenticated
\* as another user B, is answered 401 and leaves the store as it was.
C1_NonOwnerIs401AndUnmodified ==
    ByNonOwner => last.resp.status = 401 /\ ~last.changed

\* C2: the owning-user reference of every stored project and task is the
\* identity that created it, in every reachable state.
C2_OwnerIsCreator ==
    /\ \A p \in projects : CreatorOf("project", p) = {p.user}
    /\ \A t \in tasks : CreatorOf("task", t) = {t.user}

\* C2 witness: the owner has just sent an update of its own document whose
\* payload carries a `user` field naming someone else.
C2_OwnerSentUserField ==
    /\ last.op \in {"updateProjectById", "updateTaskById"}
    /\ Caller # NoId
    /\ \E d \in last.target : d.user = Caller
    /\ last.body.user \notin {NoId, Caller}
    /\ C2_OwnerIsCreator

\* C3: on a route that requires authentication nothing is read or written
\* unless the identity resolver ran and resolved a user, and a request whose
\* credential resolves to no stored user reads nothing, changes nothing and
\* is answered 401.
C3_NoCredentialIs401AndInert ==
    last.op \in AuthRequiredOps =>
        /\ (last.reads > 0 \/ last.changed) => (last.auth /\ last.user # NoId)
        /\ Caller = NoId => (last.resp.status = 401 /\ last.reads = 0 /\ ~last.changed)

\* the document a create request has just stored
NewDocs ==
    IF last.op = "createProject" THEN {p \in projects : p.id = nextProjectId - 1}
    ELSE {t \in tasks : t.id = nextTaskId - 1}

\* C4: a create request that stores a project or task stores it with the
\* caller's resolved identity as owner, whatever the payload's `user` field,
\* and is answered 201 with the stored entity; 201 is answered only then.
C4_CreateStoresCallerAsOwner ==
    last.op \in CreateOps =>
        /\ last.changed =>
              /\ Caller # NoId
              /\ Cardinality(NewDocs) = 1
              /\ \A d \in NewDocs : d.user = Caller
              /\ last.resp.status = 201
              /\ last.resp.data = NewDocs
        /\ last.resp.status = 201 => last.changed

\* C4 witness: a project was stored from a payload naming another user.
C4_CreatedWithForeignUserField ==
    /\ last.op = "createProject" /\ last.changed
    /\ last.body.user \notin {NoId, Caller}
    /\ last.resp.status = 201

\* C5: a list request by an authenticated user U is answered 200 with
\* exactly the stored entities whose owner is U.
C5_ListIsExactlyOwned ==
    (last.op \in ListOps /\ Caller # NoId) =>
        /\ last.resp.status = 200
        /\ last.resp.data =
              findByUser(IF last.op = "getProjects" THEN projects ELSE tasks, Caller)

\* C6: a list request by an authenticated user who owns nothing of the kind
\* is answered 200, success true, with an empty collection.
C6_EmptyListIsSuccess ==
    (/\ last.op \in ListOps /\ Caller # NoId
     /\ findByUser(IF last.op = "getProjects" THEN projects ELSE tasks, Caller) = {}) =>
        /\ last.resp.status = 200 /\ last.resp.success = "true"
        /\ last.resp.data = {}

\* C7: when the Authorization header is absent or does not start with
\* "Bearer ", the middleware answers 401 without verifying a token, without
\* a store lookup and without invoking the controller.
C7_NoBearerIsRejectedEarly ==
    (last.auth /\ last.hdr.scheme # "Bearer") =>
        /\ last.resp.status = 401 /\ last.nwrites = 1
        /\ last.verifyCalls = 0 /\ last.lookups = 0
        /\ ~last.next /\ last.reads = 0 /\ ~last.changed

\* C7 witness: a header of another scheme reached the middleware.
C7_BasicHeaderSeen ==
    last.auth /\ last.hdr.scheme = "Basic" /\ last.resp.status = 401

\* C8: the middleware ends either Rejected or UserResolved, never both; the
\* controller is invoked exactly when the user was resolved, and a token
\* that verifies but names no stored user is answered 401 without invoking
\* the controller.
C8_RejectedXorResolved ==
    last.auth =>
        /\ last.rejected # last.next
        /\ last.next <=> last.user # NoId
        /\ (last.verifyCalls = 1 /\ last.lookups = 1 /\ last.user = NoId) =>
              (last.resp.status = 401 /\ ~last.next)

\* C9: the token sign-up issues verifies at once and yields the new user's
\* id, expires 30 days after issuance, and a request carrying a token of the
\* server whose expiry is past is answered 401 by the middleware.
C9_TokenRoundTripAndExpiry ==
    /\ (last.op = "signUp" /\ last.resp.status = 201) =>
          /\ jwtVerify(last.resp.token, JWT_SECRET, now) =
                [err |-> "", userId |-> nextUserId - 1]
          /\ \A d \in last.resp.data : d.id = last.resp.token.userId
          /\ last.resp.token.exp = now + 30
    /\ \A tok \in issued : tok.exp = tok.iat + 30 /\ tok.key = JWT_SECRET
    /\ (/\ last.auth /\ last.hdr.scheme = "Bearer"
        /\ last.hdr.token \in issued /\ last.hdr.token.exp < now) =>
          (last.resp.status = 401 /\ ~last.next /\ ~last.changed)

\* C9 witness: a token handed out by sign-up was presented after its expiry.
C9_ExpiredTokenPresented ==
    /\ last.auth /\ last.hdr.scheme = "Bearer"
    /\ last.hdr.token \in issued /\ last.hdr.token.exp < now
    /\ last.resp.status = 401

\* the sign-up payload passes the schema and names an e-mail no user has
FreshAndValid ==
    /\ last.target = {}
    /\ UserValid(last.body)

NoSharedEmail == \A u, v \in users : u.email = v.email => u = v

SignUpCreatesOne ==
    (last.op = "signUp" /\ FreshAndValid) =>
        /\ last.changed /\ last.resp.status = 201
        /\ \E u \in users : /\ u.id = nextUserId - 1
                            /\ u.email = ToLowerCase(last.body.email)
                            /\ last.resp.token.userId = u.id
                            /\ jwtVerify(last.resp.token, JWT_SECRET, now).err = ""

\* C10 as stated: any sign-up with an e-mail a stored user has is answered
\* 400 "User already exists" and creates nothing; a fresh, valid sign-up
\* creates one user and answers 201 with its token; e-mails stay unique.
C10_Original ==
    /\ (last.op = "signUp" /\ last.target # {}) =>
          /\ last.resp.status = 400 /\ last.resp.error = "User already exists"
          /\ ~last.changed
    /\ SignUpCreatesOne
    /\ NoSharedEmail

\* C10 amended: a sign-up with all four fields present and an e-mail a
\* stored user has is answered 400 "User already exists"; with a field
\* missing it is answered 400 all the same; in both cases nothing is
\* created; a fresh, valid sign-up creates one user and answers 201 with
\* its token; no two stored users share an e-mail.
C10_DuplicateSignUp ==
    /\ (last.op = "signUp" /\ last.target # {}) =>
          /\ last.resp.status = 400
          /\ ~last.changed
          /\ (~Falsy(last.body.name) /\ ~Falsy(last.body.email)
              /\ ~Falsy(last.body.password) /\ ~Falsy(last.body.country))
                 => last.resp.error = "User already exists"
    /\ SignUpCreatesOne
    /\ NoSharedEmail

\* C10 witness: a complete sign-up repeated the e-mail of a stored user in
\* another letter case.
C10_DuplicateSeen ==
    /\ last.op = "signUp" /\ last.target # {}
    /\ last.body.email = "ALICE@example.com"
    /\ last.resp.error = "User already exists"
    /\ Cardinality(users) = 2

\* the plaintext the stored user `u` gave at sign-up
SignUpPassword(u) == {c.password : c \in {x \in signedUp : x.id = u.id}}

\* the login payload carries both an e-mail and a password
LogInComplete == ~Falsy(last.body.email) /\ ~Falsy(last.body.password)

\* a successful login: 200 with a token of the server for the user `u`
LogInSucceeded(u) ==
    /\ last.resp.status = 200
    /\ jwtVerify(last.resp.token, JWT_SECRET, now) = [err |-> "", userId |-> u.id]

\* C11 as stated: a login with a registered e-mail succeeds exactly when the
\* password is the one given at sign-up and is otherwise answered 401
\* "Invalid credentials."; a login with an unregistered e-mail is answered
\* 401 "User does not exist or invalid credentials."; no failure issues a token.
C11_Original ==
    last.op = "logIn" =>
        /\ \A u \in last.target :
              IF SignUpPassword(u) = {last.body.password}
              THEN LogInSucceeded(u)
              ELSE /\ last.resp.status = 401
                   /\ last.resp.error = "Invalid credentials."
                   /\ last.resp.token = NoToken
        /\ (last.target = {} /\ ~Falsy(last.body.email)) =>
              /\ last.resp.status = 401
              /\ last.resp.error = "User does not exist or invalid credentials."
              /\ last.resp.token = NoToken

\* C11 amended: the same for a login that carries both an e-mail and a
\* password; a login with either missing is answered 400 and issues no token.
C11_LogInByPassword ==
    last.op = "logIn" =>
        /\ LogInComplete => C11_Original
        /\ ~LogInComplete => (last.resp.status = 400 /\ last.resp.token = NoToken)
        /\ ~last.changed

\* C11 witness: a registered user's login was refused with a password that
\* is another stored user's.
C11_OtherUsersPassword ==
    /\ last.op = "logIn" /\ LogInComplete
    /\ \E u \in last.target : SignUpPassword(u) # {last.body.password}
    /\ \E v \in users : SignUpPassword(v) = {last.body.password}
    /\ last.resp.error = "Invalid credentials."

\* C12: in every reachable state the password of every stored user is the
\* bcrypt digest of the plaintext it signed up with, never that plaintext.
C12_PasswordStoredHashed ==
    \A u \in users :
        /\ u.password \notin SignUpPassword(u)
        /\ \E p \in SignUpPassword(u), salt \in Salts : u.password = bcryptHash(p, salt)

\* C12 witness: a sign-up has just stored a user.
C12_UserJustStored ==
    /\ last.op = "signUp" /\ last.changed /\ last.resp.status = 201
    /\ \E u \in users : u.id = nextUserId - 1 /\ SignUpPassword(u) = {last.body.password}
    /\ C12_PasswordStoredHashed

\* every password the store or its history holds, plaintext or digest
PasswordValues ==
    {u.password : u \in users} \cup {c.password : c \in signedUp}

\* C13: no response of sign-up, login or getMe has a password field in its
\* data, nor a stored digest or a sign-up plaintext in any of its strings.
C13_NoPasswordInResponse ==
    last.op \in {"signUp", "logIn", "getMe"} =>
        /\ \A d \in last.resp.data : "password" \notin DOMAIN d
        /\ \A d \in last.resp.data : \A f \in DOMAIN d \ {"id"} : d[f] \notin PasswordValues
        /\ last.resp.error \notin PasswordValues
        /\ last.resp.message \notin PasswordValues

\* C13 witness: a login succeeded and its response carries the user's data.
C13_LogInAnsweredWithUser ==
    /\ last.op = "logIn" /\ last.resp.status = 200
    /\ \E d \in last.resp.data : \E u \in users : d.id = u.id /\ d.email = u.email

GetByIdOps == {"getProjectById", "getTaskById"}
UpdateOps == {"updateProjectById", "updateTaskById"}
DeleteOps == {"deleteProjectById", "deleteTaskById"}

\* the collection the last request is about, as it is after the request
Coll == IF last.op \in {"getProjectById", "updateProjectById", "deleteProjectById"}
        THEN projects ELSE tasks

\* the last request is one of `ops`, by a resolved user, on a document that
\* user owns
ByOwner(ops) ==
    /\ last.op \in ops
    /\ Caller # NoId
    /\ \E d \in last.target : d.user = Caller

\* C14: get-by-id of a project or a task, whatever its Authorization header,
\* is answered 200 with the stored entity when the id names one and 404
\* when it names none.
C14_GetByIdIsOpen ==
    last.op \in GetByIdOps =>
        IF last.target # {}
        THEN last.resp.status = 200 /\ last.resp.data = last.target
        ELSE last.resp.status = 404

\* C15: an update by id by the owner is answered 200 with the entity as it
\* is after the update: payload fields take the payload's value, the others
\* keep theirs.
C15_OwnerUpdateIsPartial ==
    ByOwner(UpdateOps) =>
        /\ last.resp.status = 200
        /\ \A d \in last.target :
              /\ last.resp.data = findById(Coll, d.id)
              /\ \A e \in findById(Coll, d.id) :
                    \A f \in DOMAIN d \cap {"title", "description", "status"} :
                        e[f] = IF last.body[f] # Undefined THEN last.body[f] ELSE d[f]

\* C16: a delete by id by the owner is answered 200 with the removed entity,
\* which is then neither found by its id nor in the owner's list.
C16_OwnerDeleteRemoves ==
    ByOwner(DeleteOps) =>
        /\ last.resp.status = 200
        /\ last.resp.data = last.target
        /\ \A d \in last.target :
              findById(Coll, d.id) = {} /\ d \notin findByUser(Coll, Caller)

\* C17: an authenticated update or delete by id whose id names no stored
\* entity is answered 404 and leaves the store as it was.
C17_MissingTargetIs404 ==
    (last.op \in UpdateOps \cup DeleteOps /\ Caller # NoId /\ last.target = {}) =>
        (last.resp.status = 404 /\ ~last.changed)

\* the create payload lacks a required field
OmitsRequired ==
    \/ Falsy(last.body.title)
    \/ Falsy(last.body.description)
    \/ (last.op = "createTask" /\ FalsyId(last.body.projectId))

\* C18: an authenticated create of a project or a task whose payload lacks a
\* required field is answered 400 and stores nothing.
C18_MissingFieldIs400 ==
    (last.op \in CreateOps /\ Caller # NoId /\ OmitsRequired) =>
        (last.resp.status = 400 /\ ~last.changed)

\* C19: with JWT_SECRET absent from the environment the process never
\* listens and never issues or verifies a token.
C19_NoSecretNoStart ==
    env.JWT_SECRET = Undefined =>
        /\ server # "listening"
        /\ issued = {}
        /\ last.verifyCalls = 0

\* C20: every 400, 401, 404 or 500 response written by the middleware or a
\* controller has success false and a non-empty error string.
C20_ErrorEnvelope ==
    (last.nwrites > 0 /\ last.resp.status \in {400, 401, 404, 500}) =>
        (last.resp.success = "false" /\ last.resp.error # "")

\* the Bearer headers whose token fails verification now: malformed, signed
\* with another key, or expired
FailingBearers ==
    {h \in Headers : h.scheme = "Bearer" /\ jwtVerify(h.token, JWT_SECRET, now).err # ""}

\* C21: a request whose token fails verification gets the response any other
\* failing token would get: status and body do not tell the kind of failure.
C21_VerificationFailuresAlike ==
    (last.auth /\ last.hdr \in FailingBearers) =>
        \A h \in FailingBearers :
            Delivered(userAuthenticationMiddleware(h, users, now).writes, FALSE) = last.resp

\* C22: while the database does not answer, a request that reaches a store
\* operation (the middleware's user lookup after a token that verifies, the
\* lookups of sign-up and login) is answered 500, never 400, 401 or 404.
C22_StoreFailureIs500 ==
    (/\ ~storeUp
     /\ \/ (last.auth /\ last.hdr.scheme = "Bearer"
             /\ jwtVerify(last.hdr.token, JWT_SECRET, now).err = "")
        \/ (last.op \in {"signUp", "logIn"}
             /\ ~Falsy(last.body.email) /\ ~Falsy(last.body.password)
             /\ (last.op = "signUp" => ~Falsy(last.body.name) /\ ~Falsy(last.body.country))))
        => (last.resp.status = 500 /\ ~last.changed)

\* C23: a request gets one response: after the middleware or a controller
\* wrote an error the controller is not run, no store operation follows and
\* no second response is written.
C23_OneResponsePerRequest ==
    last.op # "idle" =>
        /\ last.nwrites <= 1
        /\ last.rejected => ~last.next
        /\ (last.op = "signUp" /\ last.resp.error = "Name or email or password or country is missing")
              => last.reads = 0
        /\ (last.op = "getProjectById" /\ last.resp.error = "Project ID not found.")
              => last.reads = 0

\* C24: saving a user whose password is unmodified leaves the digest as it
\* was: matchPassword with the sign-up plaintext stays true.
C24_SaveKeepsDigest ==
    \A u \in users : \A p \in SignUpPassword(u) : bcryptCompare(p, u.password)

\* C25: the status of every stored task is todo, in-progress or completed.
C25_TaskStatusInEnum ==
    \A t \in tasks : t.status \in {"todo", "in-progress", "completed"}

\* C25 witness: a task's owner has just sent an update, or a create, whose
\* payload carries a status outside the enumeration.
C25_BadStatusSent ==
    /\ \/ ByOwner({"updateTaskById"})
       \/ (last.op = "createTask" /\ Caller # NoId)
    /\ last.body.status = "blocked"
    /\ tasks # {}
    /\ C25_TaskStatusInEnum

\* C26: an authenticated create-task with title, description and project
\* reference but no status is answered 201 and stores the task as todo.
C26_StatusDefaultsToTodo ==
    (/\ last.op = "createTask" /\ Caller # NoId
     /\ ~Falsy(last.body.title) /\ ~Falsy(last.body.description)
     /\ ~FalsyId(last.body.projectId)
     /\ last.body.status = Undefined) =>
        /\ last.resp.status = 201
        /\ \E t \in NewDocs : t.status = "todo" /\ last.resp.data = {t}

\* C27: update-task and delete-task are authorised by the task's own user
\* reference alone: any other resolved user, the owner of the referenced
\* project included, is answered 401, and the task's user is accepted
\* whoever owns the referenced project and whether or not it exists.
C27_TaskAuthorisedByOwnUser ==
    (last.op \in TaskByIdWrites /\ Caller # NoId) =>
        \A t \in last.target :
            IF t.user = Caller
            THEN last.resp.status = 200
            ELSE last.resp.status = 401 /\ ~last.changed

\* C30: a delete of a project by its owner removes the project and nothing
\* else: the tasks that reference it stay in the store, in their user's list.
C30_ProjectDeleteLeavesTasks ==
    (ByOwner({"deleteProjectById"}) /\ \E t \in tasks : t.project = last.id) =>
        /\ last.resp.status = 200
        /\ findById(projects, last.id) = {}
        /\ \A c \in {x \in createdBy : x.kind = "task"} :
              \E t \in tasks : t.id = c.id /\ t \in findByUser(tasks, t.user)

\* C28: an update and a delete of one task by its owner that overlapped have
\* both been answered once, the delete with 200, and the task is gone.
C28_UpdateDeleteRace ==
    \A u, d \in answered :
        (/\ u.op = "updateTaskById" /\ d.op = "deleteTaskById"
         /\ u.id = d.id /\ u.owner /\ d.owner
         /\ ("deleteTaskById" \in u.with \/ "updateTaskById" \in d.with)) =>
            /\ findById(tasks, u.id) = {}
            /\ d.status = 200
            /\ u.nwrites = 1 /\ d.nwrites = 1

\* C29: however sign-ups for one e-mail overlap, no two stored users share
\* an e-mail, every 201 names the one stored user of its e-mail, and so at
\* most one of the overlapping requests is answered 201.
C29_RacingSignUpsOneUser ==
    /\ NoSharedEmail
    /\ \A a \in answered :
          (a.op = "signUp" /\ a.status = 201) =>
              \E v \in users : v.id = a.user /\ v.email = a.email
    /\ \A a, b \in answered :
          (/\ a.op = "signUp" /\ b.op = "signUp" /\ a.email = b.email
           /\ a.status = 201 /\ b.status = 201) => a.user = b.user
    /\ (last.op = "signUp" /\ last.resp.status = 201) =>
          /\ last.changed
          /\ \E v \in users : /\ v.id = last.resp.token.userId
                              /\ v.email = ToLowerCase(last.body.email)

\* C29 witness: two sign-ups for one e-mail both looked up before either
\* inserted; one was answered 201, the other was not.
C29_BothLookedUpFirst ==
    \E a, b \in answered :
        /\ a.op = "signUp" /\ b.op = "signUp" /\ a.email = b.email
        /\ ~a.found /\ ~b.found
        /\ a.status = 201 /\ b.status # 201
        /\ Cardinality({v \in users : v.email = a.email}) = 1
====
